---- MODULE Spec2Model ----
(***************************************************************************)
(* Inference data pipeline of fishbAIT: the categorical encoder and        *)
(* feature assembler (PreProcessDataForInference.GetOneHotEnc), the        *)
(* molecule normalizer (GetCanonicalSMILES), the dataset and batch loader  *)
(* (Inference_dataset, BuildInferenceDataLoaderAndDataset) and the         *)
(* batch run of app.py.                                                    *)
(*                                                                         *)
(* A table (pandas DataFrame) is a record of columns, each column a        *)
(* sequence of per-row cells; `columns` keeps the column order.  Row k of  *)
(* the source (0-based) is position k+1 of a column.                       *)
(***************************************************************************)
EXTENDS Integers, Sequences, FiniteSets, TLC

VARIABLES pc, input_table, list_of_endpoints, list_of_effects, batch_size,
          max_length, call_args, columns, dataframe, renamed, error,
          next_idx, batches, result, calls

vars == <<pc, input_table, list_of_endpoints, list_of_effects, batch_size,
          max_length, call_args, columns, dataframe, renamed, error,
          next_idx, batches, result, calls>>

\* ------------------------------------------------------------------ bounds
MaxEndpointRows   == 2
MaxEffectRows     == 2
MaxRows           == 3
MaxEndpointLabels == 3
MaxEffectLabels   == 2
MaxBatch          == 3
MaxCalls          == 2

\* ------------------------------------------------------------ input values
Endpoints     == {"EC50", "EC10", "NOEC"}
EndpointLabels == {"EC50", "EC10", "NOEC", "LC50"}
RowEffects    == {"MOR", "DVP"}
EffectLabels  == {"MOR", "DVP", "GRO"}
Smiles        == {"CCO", "OCC", "C1=CC=CC=C1", "C1CC", "xyz"}
MaxLengths    == {4, 100}
DefaultMaxLength == 100
DefaultBatchSize == 8
Duration      == 96

BaseColumns == <<"SMILES", "exposure_duration", "endpoint", "effect">>

\* ----------------------------------------------------------------- helpers
SeqToSet(s) == {s[i] : i \in DOMAIN s}

SeqsUpTo(S, n) == UNION {[1..k -> S] : k \in 0..n}

\* the label lists a caller declares: each label named once, in any order
LabelLists(S, n) ==
    {s \in SeqsUpTo(S, n) : \A i, j \in DOMAIN s : i # j => s[i] # s[j]}

Min(a, b) == IF a < b THEN a ELSE b

NRows(df) == Len(df.SMILES)

Table(smiles, endpoint, effect) ==
    [SMILES |-> smiles,
     exposure_duration |-> [i \in DOMAIN smiles |-> Duration],
     endpoint |-> endpoint,
     effect |-> effect]

Const(n, v) == [i \in 1..n |-> v]

\* list.remove(x) inside try/except: drops the first occurrence, no-op if absent
RemoveFirst(s, x) ==
    IF x \notin SeqToSet(s) THEN s
    ELSE LET k == CHOOSE i \in DOMAIN s :
                     s[i] = x /\ \A j \in 1..(i - 1) : s[j] # x
         IN SubSeq(s, 1, k - 1) \o SubSeq(s, k + 1, Len(s))

\* np.eye(n, dtype=int).tolist()
Eye(n) == [i \in 1..n |-> [j \in 1..n |-> IF i = j THEN 1 ELSE 0]]

\* dict(zip(keys, vals)): a repeated key keeps its last value
DictZip(keys, vals) ==
    [k \in SeqToSet(keys) |->
        vals[CHOOSE i \in DOMAIN keys :
                 keys[i] = k /\ \A j \in (i + 1)..Len(keys) : keys[j] # k]]

\* df[name] = values: a new column goes last, an existing one keeps its place
SetColumn(df, name, values) == (name :> values) @@ df
AddColumnName(cols, name) ==
    IF name \in SeqToSet(cols) THEN cols ELSE Append(cols, name)

\* ------------------------------------------------------ categorical encoder
\* the order reversed
encoding_order_reversed == <<"EC10", "EC50">>

encoding_order == <<"EC50", "EC10">>

\* sum(self.dataframe['endpoint'] == 'NOEC')
CountNOEC(endpoint) == Cardinality({i \in DOMAIN endpoint : endpoint[i] = "NOEC"})

\* the assignment without its row mask: every row is overwritten
RenameEveryRow(endpoint) == [i \in DOMAIN endpoint |-> "EC10"]

\* self.dataframe.loc[self.dataframe.endpoint == 'NOEC', 'endpoint'] = 'EC10'
RenameNOEC(endpoint) ==
    [i \in DOMAIN endpoint |-> IF endpoint[i] = "NOEC" THEN "EC10" ELSE endpoint[i]]

\* series.apply(lambda x: np.array(hot_enc_dict[x])): KeyError on an unknown label
ApplyRaises(series, hot_enc_dict) ==
    \E i \in DOMAIN series : series[i] \notin DOMAIN hot_enc_dict
ApplyDict(series, hot_enc_dict) ==
    [i \in DOMAIN series |-> hot_enc_dict[series[i]]]

\* the KeyError swallowed: the column is skipped and the call goes on
GetOneHotEndpointSwallowing(df, cols, labels) ==
    LET merge  == "EC10" \in SeqToSet(labels)
        df1    == IF merge THEN [df EXCEPT !.endpoint = RenameNOEC(@)] ELSE df
        labels1 == IF merge THEN RemoveFirst(labels, "NOEC") ELSE labels
        count  == IF merge THEN CountNOEC(df.endpoint) ELSE -1
        hot_enc_dict == DictZip(encoding_order, Eye(Len(encoding_order)))
    IN  IF Len(labels1) > 1 /\ ~ApplyRaises(df1.endpoint, hot_enc_dict)
        THEN [raised |-> FALSE,
              dataframe |-> SetColumn(df1, "OneHotEnc_endpoint",
                                      ApplyDict(df1.endpoint, hot_enc_dict)),
              columns |-> AddColumnName(cols, "OneHotEnc_endpoint"),
              labels |-> labels1, renamed |-> count]
        ELSE [raised |-> FALSE, dataframe |-> df1, columns |-> cols,
              labels |-> labels1, renamed |-> count]

GetOneHotEndpoint(df, cols, labels) ==
    LET merge  == "EC10" \in SeqToSet(labels)
        df1    == IF merge THEN [df EXCEPT !.endpoint = RenameNOEC(@)] ELSE df
        labels1 == IF merge THEN RemoveFirst(labels, "NOEC") ELSE labels
        count  == IF merge THEN CountNOEC(df.endpoint) ELSE -1
        hot_enc_dict == DictZip(encoding_order, Eye(Len(encoding_order)))
    IN  IF Len(labels1) > 1
        THEN IF ApplyRaises(df1.endpoint, hot_enc_dict)
             THEN [raised |-> TRUE, dataframe |-> df1, columns |-> cols,
                   labels |-> labels1, renamed |-> count]
             ELSE [raised |-> FALSE,
                   dataframe |-> SetColumn(df1, "OneHotEnc_endpoint",
                                           ApplyDict(df1.endpoint, hot_enc_dict)),
                   columns |-> AddColumnName(cols, "OneHotEnc_endpoint"),
                   labels |-> labels1, renamed |-> count]
        ELSE [raised |-> FALSE, dataframe |-> df1, columns |-> cols,
              labels |-> labels1, renamed |-> count]

GetOneHotEffect(df, cols, labels) ==
    LET hot_enc_dict == DictZip(labels, Eye(Len(labels)))
    IN  IF Len(labels) > 1
        THEN IF ApplyRaises(df.effect, hot_enc_dict)
             THEN [raised |-> TRUE, dataframe |-> df, columns |-> cols]
             ELSE [raised |-> FALSE,
                   dataframe |-> SetColumn(df, "OneHotEnc_effect",
                                           ApplyDict(df.effect, hot_enc_dict)),
                   columns |-> AddColumnName(cols, "OneHotEnc_effect")]
        ELSE [raised |-> FALSE, dataframe |-> df, columns |-> cols]

\* -------------------------------------------------------- feature assembler
\* names matched by DataFrame.filter(like='OneHotEnc')
LikeOneHotEnc(name) ==
    name \in {"OneHotEnc_endpoint", "OneHotEnc_effect", "OneHotEnc_concatenated"}

\* columns whose cells are Python lists, without .tolist(): the combined
\* column, stored as temp1.tolist() or np.zeros(...).tolist(); the cells of
\* the two indicator columns are numpy arrays
ListCells(name) == name = "OneHotEnc_concatenated"

RECURSIVE ConcatLoop(_, _, _, _)
\* for idx, col in enumerate(columns): temp1 = concatenate(temp1, columns[idx+1]);
\* whatever a round raises is swallowed and the round skipped: the IndexError
\* of the last round, the AttributeError of el.tolist() on a list cell
ConcatLoop(df, onehot, idx, temp1) ==
    IF idx > Len(onehot) THEN temp1
    ELSE IF idx + 1 > Len(onehot) THEN ConcatLoop(df, onehot, idx + 1, temp1)
    ELSE IF ListCells(onehot[idx + 1]) THEN ConcatLoop(df, onehot, idx + 1, temp1)
    ELSE ConcatLoop(df, onehot, idx + 1,
                    [i \in DOMAIN temp1 |-> temp1[i] \o df[onehot[idx + 1]][i]])

\* the loop over the further columns left out
ConcatenatedFirstOnly(df, cols) ==
    LET onehot == SelectSeq(cols, LikeOneHotEnc)
    IN  IF Len(onehot) = 0 \/ ListCells(onehot[1])
        THEN Const(NRows(df), <<0>>)
        ELSE df[onehot[1]]

\* the outer except takes over when no column matches (IndexError) or the
\* first matched column holds lists (AttributeError)
Concatenated(df, cols) ==
    LET onehot == SelectSeq(cols, LikeOneHotEnc)
    IN  IF Len(onehot) = 0 \/ ListCells(onehot[1])
        THEN Const(NRows(df), <<0>>)
        ELSE ConcatLoop(df, onehot, 1, df[onehot[1]])

\* ------------------------------------------------------- molecule normalizer
None == [valid |-> FALSE, graph |-> ""]
Mol(canonical) == [valid |-> TRUE, graph |-> canonical]

\* Chem.MolFromSmiles: the molecule parsed, or None for a string it cannot interpret
MolFromSmiles(smiles) ==
    CASE smiles = "CCO"         -> Mol("CCO")
      [] smiles = "OCC"         -> Mol("CCO")
      [] smiles = "C1=CC=CC=C1" -> Mol("c1ccccc1")
      [] smiles = "c1ccccc1"    -> Mol("c1ccccc1")
      [] OTHER                  -> None

\* Chem.MolToSmiles(mol, canonical=True): raises on None
MolToSmiles(mol) ==
    IF mol = None THEN [raised |-> TRUE, value |-> ""]
    ELSE [raised |-> FALSE, value |-> mol.graph]

\* without the except branch: a failed parse yields the empty result
CanonicalizeNoFallback(smiles) == MolToSmiles(MolFromSmiles(smiles)).value

CanonicalizeRDKit(smiles) ==
    LET r == MolToSmiles(MolFromSmiles(smiles))
    IN  IF r.raised THEN smiles ELSE r.value

\* ------------------------------------------------------ tokenizer and dataset
BosId == 0
PadId == 1
EosId == 2
UnkId == 3

\* the tokenizer's ids of a text, special tokens not included
Tokenize(text) ==
    CASE text = "CCO"         -> <<10, 10, 11>>
      [] text = "OCC"         -> <<11, 10, 10>>
      [] text = "c1ccccc1"    -> <<12, 13, 12, 12, 12, 12, 12, 13>>
      [] text = "C1=CC=CC=C1" -> <<10, 13, 14, 10, 10, 14, 10, 10, 14, 10, 13>>
      [] text = "C1CC"        -> <<10, 13, 10, 10>>
      [] OTHER                -> <<UnkId>>

\* tokenizer.encode_plus(text, truncation=True, max_length=max_len)
EncodePlus(text, max_len) ==
    LET body == Tokenize(text)
        keep == Min(Len(body), max_len - 2)
        ids  == <<BosId>> \o SubSeq(body, 1, keep) \o <<EosId>>
    IN  [input_ids |-> ids, attention_mask |-> Const(Len(ids), 1)]

Variables == <<"SMILES_Canonical_RDKit", "exposure_duration", "OneHotEnc_concatenated">>

\* Inference_dataset.__getitem__(idx), idx counted from 0
GetItem(df, variables, max_len, idx) ==
    LET encodings == EncodePlus(df[variables[1]][idx + 1], max_len)
    IN  [input_ids |-> encodings.input_ids,
         attention_mask |-> encodings.attention_mask,
         duration |-> df[variables[2]][idx + 1],
         onehotenc |-> df[variables[3]][idx + 1]]

\* a sampler that does not keep row order
SamplerBatchReversed(start, bs, n) ==
    [k \in 1..Min(bs, n - start) |-> start + Min(bs, n - start) - k]

\* SequentialSampler under DataLoader(batch_size=bs): the row indices of the
\* batch that starts at row `start` of an n-row dataset
SamplerBatch(start, bs, n) == [k \in 1..Min(bs, n - start) |-> start + k - 1]

RECURSIVE MaxLen(_)
MaxLen(seqs) ==
    IF Len(seqs) = 0 THEN 0
    ELSE LET rest == MaxLen(Tail(seqs))
         IN IF Len(Head(seqs)) > rest THEN Len(Head(seqs)) ELSE rest

\* padding='max_length' in place of 'longest'
PadWidthMaxLength(samples) == DefaultMaxLength

\* DataCollatorWithPadding(padding='longest'): the width every row is padded to
PadWidth(samples) == MaxLen([i \in DOMAIN samples |-> samples[i].input_ids])

PadTo(seq, width, value) == seq \o Const(width - Len(seq), value)

Collate(samples) ==
    LET width == PadWidth(samples)
    IN  [input_ids |-> [i \in DOMAIN samples |-> PadTo(samples[i].input_ids, width, PadId)],
         attention_mask |-> [i \in DOMAIN samples |-> PadTo(samples[i].attention_mask, width, 0)],
         duration |-> [i \in DOMAIN samples |-> samples[i].duration],
         onehotenc |-> [i \in DOMAIN samples |-> samples[i].onehotenc]]

\* one step of iterating the dataloader: the batch that starts at row `start`
LoadBatch(df, variables, bs, max_len, start) ==
    LET indices == SamplerBatch(start, bs, NRows(df))
    IN  [rows |-> indices] @@
        Collate([k \in DOMAIN indices |-> GetItem(df, variables, max_len, indices[k])])

\* ---------------------------------------------------------------- the state
\* a name of the script that no statement has bound yet
Unbound == [bound |-> FALSE]

InitCommon ==
    /\ pc = "start"
    /\ call_args = [list_of_endpoints |-> <<>>, list_of_effects |-> <<>>,
                    endpoint |-> <<>>]
    /\ columns = <<>>
    /\ dataframe = [SMILES |-> <<>>]
    /\ renamed = -1
    /\ error = ""
    /\ next_idx = 0
    /\ batches = <<>>
    /\ result = Unbound
    /\ calls = 0

\* tables and label lists that exercise the endpoint encoding
InitEndpoint ==
    /\ \E n \in 1..MaxEndpointRows : \E ep \in [1..n -> Endpoints] :
          input_table = Table(Const(n, "C1=CC=CC=C1"), ep, Const(n, "MOR"))
    /\ list_of_endpoints \in LabelLists(EndpointLabels, MaxEndpointLabels)
    /\ list_of_effects \in {<<"MOR">>, <<"MOR", "DVP">>}
    /\ batch_size = DefaultBatchSize
    /\ max_length = DefaultMaxLength

\* tables and label lists that exercise the effect encoding
InitEffect ==
    /\ \E n \in 1..MaxEffectRows : \E ef \in [1..n -> RowEffects] :
          input_table = Table(Const(n, "C1=CC=CC=C1"), Const(n, "EC50"), ef)
    /\ list_of_endpoints \in {<<"EC50">>, <<"EC50", "EC10">>}
    /\ list_of_effects \in LabelLists(EffectLabels, MaxEffectLabels)
    /\ batch_size = DefaultBatchSize
    /\ max_length = DefaultMaxLength

\* tables and loader arguments that exercise normalizer, dataset and loader
InitLoader ==
    /\ \E n \in 1..MaxRows : \E sm \in [1..n -> Smiles] :
          input_table = Table(sm, Const(n, "EC50"), Const(n, "MOR"))
    /\ list_of_endpoints = <<"EC50">>
    /\ list_of_effects = <<"MOR">>
    /\ batch_size \in 1..MaxBatch
    /\ max_length \in MaxLengths

Init == InitCommon /\ (InitEndpoint \/ InitEffect \/ InitLoader)

\* PreProcessDataForInference(dataframe), called directly
Construct ==
    /\ pc = "start"
    /\ pc' = "constructed"
    /\ dataframe' = input_table
    /\ columns' = BaseColumns
    /\ UNCHANGED <<input_table, list_of_endpoints, list_of_effects, batch_size,
                   max_length, call_args, renamed, error, next_idx, batches,
                   result, calls>>

\* processor.GetOneHotEnc(list_of_endpoints, list_of_effects): the first call
\* on a processor, or a further call that passes the same list objects
GetOneHotEnc ==
    /\ pc \in {"constructed", "encoded"}
    /\ calls < MaxCalls
    /\ calls' = calls + 1
    /\ call_args' = [list_of_endpoints |-> list_of_endpoints,
                     list_of_effects |-> list_of_effects,
                     endpoint |-> dataframe.endpoint]
    /\ LET ep == GetOneHotEndpoint(dataframe, columns, list_of_endpoints)
           ef == GetOneHotEffect(ep.dataframe, ep.columns, list_of_effects)
       IN  /\ list_of_endpoints' = ep.labels
           /\ renamed' = ep.renamed
           /\ IF ep.raised
              THEN /\ pc' = "raised"
                   /\ error' = "An unexpected error occurred."
                   /\ dataframe' = ep.dataframe
                   /\ columns' = ep.columns
              ELSE IF ef.raised
              THEN /\ pc' = "raised"
                   /\ error' = "An unexpected error occurred."
                   /\ dataframe' = ef.dataframe
                   /\ columns' = ef.columns
              ELSE /\ pc' = "encoded"
                   /\ error' = error
                   /\ dataframe' = SetColumn(ef.dataframe, "OneHotEnc_concatenated",
                                             Concatenated(ef.dataframe, ef.columns))
                   /\ columns' = AddColumnName(ef.columns, "OneHotEnc_concatenated")
    /\ UNCHANGED <<input_table, list_of_effects, batch_size, max_length, next_idx,
                   batches, result>>

\* processor.GetCanonicalSMILES()
GetCanonicalSMILES ==
    /\ pc = "encoded"
    /\ pc' = "canonical"
    /\ dataframe' = SetColumn(dataframe, "SMILES_Canonical_RDKit",
                              [i \in DOMAIN dataframe.SMILES |->
                                  CanonicalizeRDKit(dataframe.SMILES[i])])
    /\ columns' = AddColumnName(columns, "SMILES_Canonical_RDKit")
    /\ UNCHANGED <<input_table, list_of_endpoints, list_of_effects, batch_size,
                   max_length, call_args, renamed, error, next_idx, batches,
                   result, calls>>

\* BuildInferenceDataLoaderAndDataset(df, variables, tokenizer, batch_size, max_length)
BuildLoader ==
    /\ pc = "canonical"
    /\ pc' = "loader"
    /\ next_idx' = 0
    /\ batches' = <<>>
    /\ UNCHANGED <<input_table, list_of_endpoints, list_of_effects, batch_size,
                   max_length, call_args, columns, dataframe, renamed, error,
                   result, calls>>

\* one step of iterating the dataloader: the sampler's next batch_size rows,
\* each fetched by __getitem__, collated with padding
NextBatch ==
    /\ pc = "loader"
    /\ next_idx < NRows(dataframe)
    /\ LET batch == LoadBatch(dataframe, Variables, batch_size, max_length, next_idx)
       IN  /\ batches' = Append(batches, batch)
           /\ next_idx' = next_idx + Len(batch.rows)
    /\ UNCHANGED <<pc, input_table, list_of_endpoints, list_of_effects, batch_size,
                   max_length, call_args, columns, dataframe, renamed, error,
                   result, calls>>

\* one run of the script of app.py in batch mode with a file uploaded: the
\* table is read, then `PreProcessDataForInference`, a name the script never
\* imports, is looked up and the run ends there; the Predict branch with its
\* loop over the loader and the join of `out` into `result` is not reached
AppBatchRun ==
    /\ pc = "start"
    /\ pc' = "app_raised"
    /\ error' = "name 'PreProcessDataForInference' is not defined"
    /\ result' = Unbound
    /\ UNCHANGED <<input_table, list_of_endpoints, list_of_effects, batch_size,
                   max_length, call_args, columns, dataframe, renamed,
                   next_idx, batches, calls>>

Next ==
    \/ Construct
    \/ GetOneHotEnc
    \/ GetCanonicalSMILES
    \/ BuildLoader
    \/ NextBatch
    \/ AppBatchRun

Spec == Init /\ [][Next]_vars

\* ------------------------------------------------------------ state predicates
\* GetOneHotEnc has been called on the processor
Called == pc \notin {"start", "constructed", "app_raised"}

\* GetOneHotEnc raised 'An unexpected error occurred.'
EncodeFailed == pc = "raised" /\ error = "An unexpected error occurred."

\* GetOneHotEnc returned the table
Returned == Called /\ ~EncodeFailed

\* GetCanonicalSMILES has returned
Canonicalized == Returned /\ pc # "encoded"

\* the loader exists (it may be part-way through or exhausted)
LoaderBuilt == Canonicalized /\ pc # "canonical"

\* the loader has yielded its last batch
LoaderExhausted == LoaderBuilt /\ next_idx >= NRows(dataframe)

\* the run of the script of app.py in batch mode has ended
AppRunEnded == pc = "app_raised"

HasColumn(name) == name \in SeqToSet(columns)

\* ------------------------------------------------------------------------ C1
\* C1: for a table whose rows read only EC50 or EC10 and a label list that
\* keeps more than one label after the NOEC merge, the call attaches
\* OneHotEnc_endpoint, and every row holds the unit vector [1,0] for EC50 and
\* [0,1] for EC10, whatever order the caller listed the labels in.
C1_EndpointUnitVectors ==
    (Called /\ SeqToSet(input_table.endpoint) \subseteq {"EC50", "EC10"}
            /\ Len(list_of_endpoints) > 1)
    => /\ HasColumn("OneHotEnc_endpoint")
       /\ \A i \in DOMAIN input_table.endpoint :
             dataframe["OneHotEnc_endpoint"][i] =
                 IF input_table.endpoint[i] = "EC50" THEN <<1, 0>> ELSE <<0, 1>>

C1_Witness ==
    /\ pc = "encoded"
    /\ call_args.list_of_endpoints = <<"EC10", "EC50">>
    /\ input_table.endpoint = <<"EC50", "EC10">>
    /\ HasColumn("OneHotEnc_endpoint")
    /\ dataframe["OneHotEnc_endpoint"] = << <<1, 0>>, <<0, 1>> >>

\* ------------------------------------------------------------------------ C2
ExpectedCombined(i) ==
    IF ~HasColumn("OneHotEnc_endpoint") /\ ~HasColumn("OneHotEnc_effect")
    THEN <<0>>
    ELSE (IF HasColumn("OneHotEnc_endpoint")
          THEN dataframe["OneHotEnc_endpoint"][i] ELSE <<>>)
         \o (IF HasColumn("OneHotEnc_effect")
             THEN dataframe["OneHotEnc_effect"][i] ELSE <<>>)

\* C2: once GetOneHotEnc has returned, every row's OneHotEnc_concatenated is
\* its endpoint vector followed by its effect vector (those attached), or [0]
\* when neither is attached; with labels [EC50, EC10] and [MOR] its length is 2.
C2_CombinedVector ==
    Returned
    => /\ HasColumn("OneHotEnc_concatenated")
       /\ Len(dataframe["OneHotEnc_concatenated"]) = NRows(input_table)
       /\ \A i \in 1..NRows(input_table) :
             dataframe["OneHotEnc_concatenated"][i] = ExpectedCombined(i)
       /\ (/\ call_args.list_of_endpoints = <<"EC50", "EC10">>
           /\ call_args.list_of_effects = <<"MOR">>
           => \A i \in 1..NRows(input_table) :
                 Len(dataframe["OneHotEnc_concatenated"][i]) = 2)

C2_Witness ==
    /\ pc = "encoded"
    /\ calls = 2
    /\ HasColumn("OneHotEnc_endpoint")
    /\ HasColumn("OneHotEnc_effect")
    /\ \E i \in 1..NRows(input_table) :
          /\ input_table.endpoint[i] = "NOEC"
          /\ dataframe["OneHotEnc_concatenated"][i] = <<0, 1, 1, 0>>

\* ------------------------------------------------------------------------ C3
\* C3: for a table in which every row reads EC50, whatever endpoint label
\* list the caller passes, no OneHotEnc_endpoint column is attached.
C3_NoColumnForSingleEndpointTable ==
    (Called /\ \A i \in DOMAIN input_table.endpoint : input_table.endpoint[i] = "EC50")
    => ~HasColumn("OneHotEnc_endpoint")

\* ------------------------------------------------------------------------ C4
\* C4: when EC10 is among the labels passed, every row that read NOEC reads
\* EC10 after the call, every other row keeps its endpoint, no row reads
\* NOEC, and the reported count is the number of rows that read NOEC before.
C4_MergeNOEC ==
    (Called /\ "EC10" \in SeqToSet(call_args.list_of_endpoints))
    => /\ \A i \in DOMAIN call_args.endpoint :
             dataframe.endpoint[i] =
                 IF call_args.endpoint[i] = "NOEC" THEN "EC10"
                 ELSE call_args.endpoint[i]
       /\ "NOEC" \notin SeqToSet(dataframe.endpoint)
       /\ renamed = Cardinality({i \in DOMAIN call_args.endpoint :
                                    call_args.endpoint[i] = "NOEC"})

C4_Witness ==
    /\ Called
    /\ "EC10" \in SeqToSet(call_args.list_of_endpoints)
    /\ call_args.endpoint = <<"NOEC", "EC50">>
    /\ dataframe.endpoint = <<"EC10", "EC50">>
    /\ renamed = 1

\* ------------------------------------------------------------------------ C7
EndpointColumnBuilt == Len(list_of_endpoints) > 1
EffectColumnBuilt   == Len(list_of_effects) > 1

\* C7 as claimed: while a category's indicator column is being built, a row
\* label absent from the label list the caller declared for that category
\* makes GetOneHotEnc fail, and no combined feature column is produced.
C7_UndeclaredLabelFails ==
    (Called /\ \/ /\ EndpointColumnBuilt
                  /\ \E i \in DOMAIN dataframe.endpoint :
                        dataframe.endpoint[i] \notin SeqToSet(call_args.list_of_endpoints)
               \/ /\ EffectColumnBuilt
                  /\ \E i \in DOMAIN dataframe.effect :
                        dataframe.effect[i] \notin SeqToSet(call_args.list_of_effects))
    => (EncodeFailed /\ ~HasColumn("OneHotEnc_concatenated"))

\* C7 amended: while a category's indicator column is being built, a row
\* label absent from the keys of that category's encoding dictionary (EC50 and
\* EC10 for the endpoint, after the NOEC merge; the caller's effect labels for
\* the effect) makes GetOneHotEnc fail, and no combined column is produced.
C7_UnknownKeyFails ==
    (Called /\ \/ /\ EndpointColumnBuilt
                  /\ \E i \in DOMAIN dataframe.endpoint :
                        dataframe.endpoint[i] \notin {"EC50", "EC10"}
               \/ /\ EffectColumnBuilt
                  /\ \E i \in DOMAIN dataframe.effect :
                        dataframe.effect[i] \notin SeqToSet(call_args.list_of_effects))
    => (EncodeFailed /\ ~HasColumn("OneHotEnc_concatenated"))

C7_Witness ==
    /\ EncodeFailed
    /\ call_args.list_of_endpoints = <<"EC50", "NOEC">>
    /\ "NOEC" \in SeqToSet(dataframe.endpoint)
    /\ ~HasColumn("OneHotEnc_endpoint")
    /\ ~HasColumn("OneHotEnc_concatenated")

\* ----------------------------------------------------------------------- C10
\* C10: a call to GetOneHotEnc leaves the caller's endpoint label list and
\* effect label list with the contents they had before the call.
C10_LabelListsUntouched ==
    Called => /\ list_of_endpoints = call_args.list_of_endpoints
              /\ list_of_effects = call_args.list_of_effects

\* ------------------------------------------------------------------------ C5
RECURSIVE Flatten(_)
Flatten(seqs) == IF Len(seqs) = 0 THEN <<>> ELSE Head(seqs) \o Flatten(Tail(seqs))

YieldedRows == Flatten([k \in DOMAIN batches |-> batches[k].rows])

\* C5: the loader yields the rows in row order, none skipped, repeated or
\* reordered: every batch holds batch_size consecutive rows, only the last
\* may be shorter and none is empty, and once the loader is exhausted the
\* batches' row indices concatenate to 0..n-1.
C5_BatchesInRowOrder ==
    LoaderBuilt
    => /\ \A k \in DOMAIN batches :
             /\ Len(batches[k].rows) >= 1
             /\ Len(batches[k].rows) <= batch_size
             /\ (k < Len(batches) => Len(batches[k].rows) = batch_size)
             /\ Len(batches[k].input_ids) = Len(batches[k].rows)
       /\ YieldedRows = [i \in 1..next_idx |-> i - 1]
       /\ (LoaderExhausted => YieldedRows = [i \in 1..NRows(input_table) |-> i - 1])

C5_Witness ==
    /\ LoaderExhausted
    /\ NRows(input_table) = 3
    /\ batch_size = 2
    /\ Len(batches) = 2
    /\ batches[1].rows = <<0, 1>>
    /\ batches[2].rows = <<2>>

\* ------------------------------------------------------------------------ C6
\* length of row i's token sequence once truncated to max_length
TruncatedLength(i) ==
    Min(Len(Tokenize(dataframe["SMILES_Canonical_RDKit"][i])) + 2, max_length)

LongestOf(rows) ==
    CHOOSE w \in {TruncatedLength(rows[j] + 1) : j \in DOMAIN rows} :
        \A j \in DOMAIN rows : TruncatedLength(rows[j] + 1) <= w

\* C6: in every batch yielded, all input-id rows and all attention-mask rows
\* have one width, the length of the longest truncated token sequence among
\* the rows of that batch.
C6_BatchLocalPadding ==
    LoaderBuilt
    => \A k \in DOMAIN batches :
          \A i \in DOMAIN batches[k].rows :
             /\ Len(batches[k].input_ids[i]) = LongestOf(batches[k].rows)
             /\ Len(batches[k].attention_mask[i]) = LongestOf(batches[k].rows)

C6_Witness ==
    /\ LoaderBuilt
    /\ \E k \in DOMAIN batches :
          /\ Len(batches[k].rows) = 2
          /\ \E i \in DOMAIN batches[k].rows : 0 \in SeqToSet(batches[k].attention_mask[i])
          /\ \E r \in 1..NRows(input_table) :
                TruncatedLength(r) > Len(batches[k].input_ids[1])

\* ------------------------------------------------------------------------ C8
\* C8: a SMILES string the parser cannot interpret comes back unchanged and
\* nothing is raised, so GetCanonicalSMILES sets SMILES_Canonical_RDKit for
\* every row of the table, malformed rows included.
C8_MalformedPassThrough ==
    Canonicalized
    => /\ HasColumn("SMILES_Canonical_RDKit")
       /\ Len(dataframe["SMILES_Canonical_RDKit"]) = NRows(input_table)
       /\ \A i \in 1..NRows(input_table) :
             MolFromSmiles(input_table.SMILES[i]) = None
             => dataframe["SMILES_Canonical_RDKit"][i] = input_table.SMILES[i]

C8_Witness ==
    /\ pc = "canonical"
    /\ \E i, j \in 1..NRows(input_table) :
          /\ input_table.SMILES[i] = "xyz"
          /\ dataframe["SMILES_Canonical_RDKit"][i] = "xyz"
          /\ input_table.SMILES[j] = "OCC"
          /\ dataframe["SMILES_Canonical_RDKit"][j] = "CCO"

\* ------------------------------------------------------------------------ C9
\* C9: in the batch prediction path, once the run over an uploaded table has
\* ended, the output table has one row per input row and every row carries
\* its prediction (a log10 and a linear concentration).
C9_EveryRowGetsItsPrediction ==
    AppRunEnded
    => /\ result.bound
       /\ Len(result.table["Predictions [Log10(mg/L)]"]) = NRows(input_table)
       /\ Len(result.table["Predictions [mg/L]"]) = NRows(input_table)
====
